---- MODULE Spec2Model ----
(***************************************************************************)
(* Model of the nutrition store of sophross (src/src/database.rs,          *)
(* src/src/ingredients.rs): the SQLite tables, the connection state that   *)
(* the repository operations leave behind (open transaction, the TEMP      *)
(* table _variables), and one action per repository operation.             *)
(*                                                                         *)
(* Floats are modelled as integers counting fortieths (4 = 0.1, 5 = 0.125, *)
(* 40 = 1.0), so that both one-decimal values and values with more         *)
(* decimals that an f32 holds exactly are present; NaN stands for the      *)
(* non-finite f32 values (NaN, inf), which "{:.1}" prints as a word.       *)
(* Each nutrient group row carries one amount standing for its columns,    *)
(* which insert_ingredient formats and the readers decode all alike.       *)
(***************************************************************************)
EXTENDS Integers, Sequences, FiniteSets, TLC

\* ---------------------------------------------------------------- bounds
MaxIngredients == 2
MaxCategories == 2
MaxLogs == 2
MaxInfos == 2
MaxLinks == 2
MaxRows == 3
MaxList == 2
MaxCode == 5
MaxGrams == 2

\* ------------------------------------------------------------ value sets
Null == 0
NaN == -1
\* The TEMP table _variables: absent, or present with its rows.
NoTable == [exists |-> FALSE, rows |-> <<>>]
Table(rows) == [exists |-> TRUE, rows |-> rows]
Panic == "panic"

\* Result<usize, RusqliteError>
Ok(value) == [ok |-> TRUE, value |-> value]
Err == [ok |-> FALSE, value |-> 0]

\* What a call hands back: a value, or nothing because it unwound on a panic.
Returned(value) == [returned |-> TRUE, value |-> value]
Unwound == [returned |-> FALSE, value |-> <<>>]

NutrientTables ==
    {"protein_sets", "fat_sets", "carbohydrate_sets", "vitamin_sets", "mineral_sets"}

NutrientOrder ==
    <<"protein_sets", "fat_sets", "carbohydrate_sets", "vitamin_sets", "mineral_sets">>

Unit == <<"Grams", "Teaspoons", "Tablespoons", "Pieces", "Cups">>

Dates == {"2024-01-01", "2024-01-02"}
Fractions == {40}

\* The discriminants counted from one.
as_u8_from_one(unit) == CHOOSE k \in 1..Len(Unit) : Unit[k] = unit

\* ToSql for Unit: Value::Integer(*self as i64)
to_sql(unit) == (CHOOSE k \in 1..Len(Unit) : Unit[k] = unit) - 1

\* `nutritional_info.default_unit as u8`
as_u8(unit) == (CHOOSE k \in 1..Len(Unit) : Unit[k] = unit) - 1

\* A decoder that falls back to the first unit instead of panicking.
from_uint_defaulting(input) ==
    CASE input = 0 -> "Grams"
      [] input = 1 -> "Teaspoons"
      [] input = 2 -> "Tablespoons"
      [] input = 3 -> "Pieces"
      [] input = 4 -> "Cups"
      [] OTHER -> "Grams"

from_uint(input) ==
    CASE input = 0 -> "Grams"
      [] input = 1 -> "Teaspoons"
      [] input = 2 -> "Tablespoons"
      [] input = 3 -> "Pieces"
      [] input = 4 -> "Cups"
      [] OTHER -> Panic

\* A NutritionalInfo value handed to insert_ingredient.
NutritionalInfo(amount, unit, kcal, groups) ==
    [default_amount |-> amount, default_unit |-> unit, kilocalories |-> kcal,
     groups |-> groups]

Uniform(v) == [t \in NutrientTables |-> v]

\* Three profiles: every field 0.1, every field 0.125, and one with a
\* non-finite fat amount.
Tenths == NutritionalInfo(4, "Cups", 4, Uniform(4))
Eighths == NutritionalInfo(5, "Cups", 5, Uniform(5))
NonFinite == NutritionalInfo(4, "Cups", 4, [Uniform(4) EXCEPT !["fat_sets"] = NaN])

NutritionalInfos == {Tenths, Eighths, NonFinite}

\* The nutritional_info lists: none, one record of each profile, and two to
\* MaxInfos records.
InfoLists ==
    {<<>>} \cup {<<info>> : info \in NutritionalInfos}
           \cup {[k \in 1..n |-> Tenths] : n \in 2..MaxInfos}

\* ------------------------------------------------------------- variables
VARIABLES
    ingredients,            \* table ingredients: rows [id, name]
    categories,             \* table categories: rows [id]
    ingredient_categories,  \* join table: rows [id (rowid), ingredient_id, category_id]
    nutritional_info,       \* rows [id, default_amount, default_unit, kilocalories, ingredient_id]
    nutrient_sets,          \* the five nutrient tables: name -> rows [id, nutrition_info_id, amount]
    daily_logs,             \* rows [id, date, ingredient_id, fraction]
    variables,              \* TEMP table _variables: NoTable, or Table of, for each
                            \* var_name, its first row [var_name, value]. Every
                            \* SELECT on the table is WHERE var_name = .. LIMIT 1, so a
                            \* later row of the same name is never read and is not kept.
    in_transaction,         \* the connection is inside BEGIN ... COMMIT
    panicked,               \* the process has unwound on a panic
    last,                   \* the last repository call: its name, arguments and result
    context                 \* MyContext: the lists, flags, selections and form fields of the UI

vars == <<ingredients, categories, ingredient_categories, nutritional_info,
          nutrient_sets, daily_logs, variables, in_transaction, panicked,
          last, context>>

tables == <<ingredients, categories, ingredient_categories, nutritional_info,
            nutrient_sets, daily_logs>>

\* Option<T>: None, or Some(value).
None == <<>>
Some(value) == <<value>>

\* MyApp::default: the context the application starts with. Amounts count
\* fortieths, so 1.0 is 40; the date is the day update() puts in on the first
\* frame.
MyContext ==
    [date |-> "2024-01-01",
     ingredients_list |-> <<>>,
     show_new_ingredient_dialog |-> FALSE,
     update_ingredients |-> TRUE,
     selected_ingredient |-> None,
     new_ingredient_name |-> "",
     new_ingredient_name_was_empty |-> FALSE,
     new_ingredient_amount |-> 40,
     new_ingredient_unit |-> "Grams",
     new_ingredient_calories |-> 0,
     new_ingredient_selected_categories |-> <<>>,
     new_ingredient_nutritional_info |-> None,
     categories_list |-> <<>>,
     show_new_category_dialog |-> FALSE,
     update_categories |-> TRUE,
     selected_category |-> None,
     new_category_name |-> "",
     new_category_name_was_empty |-> FALSE,
     new_category_selected_icon |-> None,
     new_category_selected_icon_was_invalid |-> FALSE,
     log_entry_list |-> <<>>,
     show_new_log_entry_dialog |-> FALSE,
     update_log_entries |-> TRUE,
     new_log_entry_fraction |-> 40,
     new_log_entry_filtered_ingredients |-> <<>>,
     new_log_entry_selected_ingredient |-> None]

\* ------------------------------------------------------ SQLite semantics
Max(S) == CHOOSE m \in S : \A x \in S : x <= m
Min(S) == CHOOSE m \in S : \A x \in S : m <= x

Ids(rows) == {r.id : r \in rows}

\* INTEGER PRIMARY KEY without AUTOINCREMENT: the new rowid is one more than
\* the largest rowid now in the table.
NextRowid(rows) == IF rows = {} THEN 1 ELSE Max(Ids(rows)) + 1

\* "{:.1}" of an f32 followed by SQLite's parse of the literal: the value
\* rounded to one decimal (ties to even); a non-finite value prints a word
\* that is not a literal.
FormatP1(v) ==
    IF v = NaN THEN NaN
    ELSE LET t == v \div 4
             r == v % 4
         IN  IF r < 2 THEN 4 * t
             ELSE IF r > 2 THEN 4 * (t + 1)
             ELSE IF t % 2 = 0 THEN 4 * t ELSE 4 * (t + 1)

\* A name is spliced between single quotes; one that holds a quote makes the
\* INSERT unparsable.
NameIsLiteral(name) == name # "o'at"

\* (SELECT value FROM _variables WHERE var_name = name LIMIT 1)
SelectVariable(vt, name) ==
    LET hits == {k \in 1..Len(vt) : vt[k].var_name = name}
    IN  IF hits = {} THEN Null ELSE vt[Min(hits)].value

\* The database as one value, threaded through the statements of a batch;
\* failed: an execute_batch of the call returned Err.
Database ==
    [ingredients |-> ingredients, categories |-> categories,
     ingredient_categories |-> ingredient_categories,
     nutritional_info |-> nutritional_info, nutrient_sets |-> nutrient_sets,
     daily_logs |-> daily_logs, variables |-> variables,
     in_transaction |-> in_transaction, last_insert_rowid |-> 0,
     failed |-> FALSE]

Failed(db) == [ok |-> FALSE, db |-> db]
Done(db) == [ok |-> TRUE, db |-> db]

\* One statement of a batch: the database after it and whether it succeeded.
\* A failing statement changes nothing (statement-level rollback) and leaves
\* the transaction as it is.
Execute(db, stmt) ==
    CASE stmt.kind = "BEGIN" ->
            IF db.in_transaction THEN Failed(db)
            ELSE Done([db EXCEPT !.in_transaction = TRUE])
      [] stmt.kind = "COMMIT" ->
            IF db.in_transaction THEN Done([db EXCEPT !.in_transaction = FALSE])
            ELSE Failed(db)
      [] stmt.kind = "CREATE_VARIABLES" ->
            IF ~db.variables.exists THEN Done([db EXCEPT !.variables = Table(<<>>)])
            ELSE Done(db)
      [] stmt.kind = "DROP_VARIABLES" ->
            Done([db EXCEPT !.variables = NoTable])
      [] stmt.kind = "INSERT_INGREDIENT" ->
            IF ~NameIsLiteral(stmt.name) THEN Failed(db)
            ELSE LET id == NextRowid(db.ingredients)
                 IN  Done([db EXCEPT
                        !.ingredients = @ \cup {[id |-> id, name |-> stmt.name]},
                        !.last_insert_rowid = id])
      [] stmt.kind = "INSERT_VARIABLE" ->
            IF ~db.variables.exists THEN Failed(db)
            ELSE IF \E k \in 1..Len(db.variables.rows) :
                        db.variables.rows[k].var_name = stmt.var_name
            THEN Done(db)
            ELSE Done([db EXCEPT !.variables.rows =
                        Append(@, [var_name |-> stmt.var_name,
                                   value |-> db.last_insert_rowid])])
      [] stmt.kind = "INSERT_INGREDIENT_CATEGORY" ->
            IF ~db.variables.exists THEN Failed(db)
            ELSE LET ing == SelectVariable(db.variables.rows, "ingredient_id")
                     id == NextRowid(db.ingredient_categories)
                 IN  IF \/ (ing # Null /\ ing \notin Ids(db.ingredients))
                        \/ stmt.category_id \notin Ids(db.categories)
                     THEN Failed(db)
                     ELSE Done([db EXCEPT
                            !.ingredient_categories = @ \cup
                                {[id |-> id, ingredient_id |-> ing,
                                  category_id |-> stmt.category_id]},
                            !.last_insert_rowid = id])
      [] stmt.kind = "INSERT_NUTRITIONAL_INFO" ->
            IF \/ ~db.variables.exists
               \/ FormatP1(stmt.default_amount) = NaN
               \/ FormatP1(stmt.kilocalories) = NaN
            THEN Failed(db)
            ELSE LET ing == SelectVariable(db.variables.rows, "ingredient_id")
                     id == NextRowid(db.nutritional_info)
                 IN  IF ing # Null /\ ing \notin Ids(db.ingredients)
                     THEN Failed(db)
                     ELSE Done([db EXCEPT
                            !.nutritional_info = @ \cup
                                {[id |-> id,
                                  default_amount |-> FormatP1(stmt.default_amount),
                                  default_unit |-> stmt.default_unit,
                                  kilocalories |-> FormatP1(stmt.kilocalories),
                                  ingredient_id |-> ing]},
                            !.last_insert_rowid = id])
      [] stmt.kind = "INSERT_NUTRIENT_SET" ->
            IF ~db.variables.exists \/ FormatP1(stmt.amount) = NaN
            THEN Failed(db)
            ELSE LET ni == SelectVariable(db.variables.rows, "nutritional_info_id")
                     id == NextRowid(db.nutrient_sets[stmt.table])
                 IN  IF ni # Null /\ ni \notin Ids(db.nutritional_info)
                     THEN Failed(db)
                     ELSE Done([db EXCEPT
                            !.nutrient_sets[stmt.table] = @ \cup
                                {[id |-> id, nutrition_info_id |-> ni,
                                  amount |-> FormatP1(stmt.amount)]},
                            !.last_insert_rowid = id])

\* Connection::execute_batch: the statements run one by one and the first
\* failure returns, with no rollback of what ran before it.
RECURSIVE execute_batch(_, _)
execute_batch(db, stmts) ==
    IF stmts = <<>> THEN db
    ELSE LET r == Execute(db, Head(stmts))
         IN  IF r.ok THEN execute_batch(r.db, Tail(stmts))
             ELSE [r.db EXCEPT !.failed = TRUE]


\* ---------------------------------------------------------------- readers
Statement(kind) == [kind |-> kind]

\* Lexicographic order on the rowids of a joined row.
LexLess(a, b) ==
    \E k \in 1..Len(a) : a[k] < b[k] /\ \A j \in 1..(k - 1) : a[j] = b[j]

RECURSIVE InKeyOrder(_, _)
InKeyOrder(S, key) ==
    IF S = {} THEN <<>>
    ELSE LET m == CHOOSE x \in S : \A y \in S \ {x} : LexLess(key[x], key[y])
         IN  <<m>> \o InKeyOrder(S \ {m}, key)

SetsOf(t, ni) == {s \in nutrient_sets[t] : s.nutrition_info_id = ni.id}

\* The join with LEFT JOINs on the five nutrient tables: a missing nutrient
\* row comes back as NULLs.
JoinRows_left ==
    LET Left(t, ni) ==
            IF SetsOf(t, ni) = {}
            THEN {[id |-> Null, nutrition_info_id |-> ni.id, amount |-> Null]}
            ELSE SetsOf(t, ni)
    IN  UNION {UNION {
            {[ing |-> ing, ni |-> ni, ps |-> ps, fs |-> fs, cs |-> cs, vs |-> vs, ms |-> ms] :
                ps \in Left("protein_sets", ni), fs \in Left("fat_sets", ni),
                cs \in Left("carbohydrate_sets", ni), vs \in Left("vitamin_sets", ni),
                ms \in Left("mineral_sets", ni)} :
            ni \in {n \in nutritional_info : n.ingredient_id = ing.id}} :
            ing \in ingredients}

\* ingredients INNER JOIN nutritional_info INNER JOIN the five nutrient tables
JoinRows ==
    UNION {UNION {
        {[ing |-> ing, ni |-> ni, ps |-> ps, fs |-> fs, cs |-> cs, vs |-> vs, ms |-> ms] :
            ps \in SetsOf("protein_sets", ni), fs \in SetsOf("fat_sets", ni),
            cs \in SetsOf("carbohydrate_sets", ni), vs \in SetsOf("vitamin_sets", ni),
            ms \in SetsOf("mineral_sets", ni)} :
        ni \in {n \in nutritional_info : n.ingredient_id = ing.id}} :
        ing \in ingredients}

JoinKey(r) == <<r.ing.id, r.ni.id, r.ps.id, r.fs.id, r.cs.id, r.vs.id, r.ms.id>>

\* categories c INNER JOIN ingredient_categories ic
\*     ON ic.category_id = c.id AND ic.ingredient_id = id
CategoriesOf(id) ==
    LET rows == {ic \in ingredient_categories :
                    ic.ingredient_id = id /\ ic.category_id \in Ids(categories)}
        inOrder == InKeyOrder(rows, [ic \in rows |-> <<ic.category_id, ic.id>>])
    IN  [k \in 1..Len(inOrder) |-> inOrder[k].category_id]

\* The row mapper shared by get_ingredients and get_ingredient_by_id.
RowToIngredient(r) ==
    [id |-> r.ing.id, name |-> r.ing.name, categories |-> CategoriesOf(r.ing.id),
     nutritional_info |->
        <<[default_amount |-> r.ni.default_amount,
           default_unit |-> from_uint(r.ni.default_unit),
           kilocalories |-> r.ni.kilocalories,
           groups |-> [t \in NutrientTables |->
                CASE t = "protein_sets" -> r.ps.amount
                  [] t = "fat_sets" -> r.fs.amount
                  [] t = "carbohydrate_sets" -> r.cs.amount
                  [] t = "vitamin_sets" -> r.vs.amount
                  [] t = "mineral_sets" -> r.ms.amount]]>>]

Decodes(rows) == \A r \in rows : from_uint(r.ni.default_unit) # Panic

get_ingredients ==
    IF ~Decodes(JoinRows) THEN Unwound
    ELSE LET inOrder == InKeyOrder(JoinRows, [r \in JoinRows |-> JoinKey(r)])
         IN  Returned([k \in 1..Len(inOrder) |-> RowToIngredient(inOrder[k])])

\* get_ingredient_by_id without its WHERE clause: the first row of the join.
get_ingredient_by_id_any(id) ==
    LET inOrder == InKeyOrder(JoinRows, [r \in JoinRows |-> JoinKey(r)])
    IN  IF JoinRows = {} THEN Returned(<<>>)
        ELSE IF from_uint(inOrder[1].ni.default_unit) = Panic THEN Unwound
        ELSE Returned(<<RowToIngredient(inOrder[1])>>)

\* The same join WHERE ing.id = id LIMIT 1.
get_ingredient_by_id(id) ==
    LET rows == {r \in JoinRows : r.ing.id = id}
        inOrder == InKeyOrder(rows, [r \in rows |-> JoinKey(r)])
    IN  IF rows = {} THEN Returned(<<>>)
        ELSE IF from_uint(inOrder[1].ni.default_unit) = Panic THEN Unwound
        ELSE Returned(<<RowToIngredient(inOrder[1])>>)

get_categories ==
    LET inOrder == InKeyOrder(categories, [c \in categories |-> <<c.id>>])
    IN  Returned([k \in 1..Len(inOrder) |-> inOrder[k].id])

LogRows(date) == {l \in daily_logs : l.date = date}

\* Each row of the date is resolved with get_ingredient_by_id(..)[0]: an empty
\* lookup is an index out of bounds.
get_log_entries(date) ==
    LET rows == LogRows(date)
        inOrder == InKeyOrder(rows, [l \in rows |-> <<l.id>>])
    IN  IF \E l \in rows : get_ingredient_by_id(l.ingredient_id).value = <<>>
        THEN Unwound
        ELSE Returned([k \in 1..Len(inOrder) |->
                [id |-> inOrder[k].id,
                 ingredient |-> get_ingredient_by_id(inOrder[k].ingredient_id).value[1],
                 fraction |-> inOrder[k].fraction]])

\* ----------------------------------------------------------------- writers
\* The first batch of insert_ingredient.
IngredientBatch(ingredient) ==
    <<Statement("BEGIN"), Statement("CREATE_VARIABLES"),
      [kind |-> "INSERT_INGREDIENT", name |-> ingredient.name],
      [kind |-> "INSERT_VARIABLE", var_name |-> "ingredient_id"]>>
    \o [k \in 1..Len(ingredient.categories) |->
            [kind |-> "INSERT_INGREDIENT_CATEGORY",
             category_id |-> ingredient.categories[k]]]
    \o <<Statement("COMMIT")>>

\* The batch of one NutritionalInfo without its DROP TABLE _variables.
NutritionalInfoBatch_keeps_variables(info) ==
    <<Statement("BEGIN"),
      [kind |-> "INSERT_NUTRITIONAL_INFO", default_amount |-> info.default_amount,
       default_unit |-> as_u8(info.default_unit), kilocalories |-> info.kilocalories],
      [kind |-> "INSERT_VARIABLE", var_name |-> "nutritional_info_id"]>>
    \o [k \in 1..Len(NutrientOrder) |->
            [kind |-> "INSERT_NUTRIENT_SET", table |-> NutrientOrder[k],
             amount |-> info.groups[NutrientOrder[k]]]]
    \o <<Statement("COMMIT")>>

\* The batch run for one NutritionalInfo.
NutritionalInfoBatch(info) ==
    <<Statement("BEGIN"),
      [kind |-> "INSERT_NUTRITIONAL_INFO", default_amount |-> info.default_amount,
       default_unit |-> as_u8(info.default_unit), kilocalories |-> info.kilocalories],
      [kind |-> "INSERT_VARIABLE", var_name |-> "nutritional_info_id"]>>
    \o [k \in 1..Len(NutrientOrder) |->
            [kind |-> "INSERT_NUTRIENT_SET", table |-> NutrientOrder[k],
             amount |-> info.groups[NutrientOrder[k]]]]
    \o <<Statement("DROP_VARIABLES"), Statement("COMMIT")>>

\* for nutritional_info in &ingredient.nutritional_info { execute_batch(..) }
RECURSIVE InsertInfos(_, _)
InsertInfos(db, infos) ==
    IF infos = <<>> THEN db
    ELSE InsertInfos(execute_batch(db, NutritionalInfoBatch(Head(infos))), Tail(infos))

\* Both results of execute_batch are dropped (let _ =).
insert_ingredient(db, ingredient) ==
    InsertInfos(execute_batch(db, IngredientBatch(ingredient)),
                ingredient.nutritional_info)

\* delete_ingredient with nutritional_info's cascade stopping short of the
\* nutrient tables.
delete_ingredient_keeps_sets(db, id) ==
    [db EXCEPT
        !.ingredients = {r \in @ : r.id # id},
        !.ingredient_categories = {r \in @ : r.ingredient_id # id},
        !.nutritional_info = {r \in @ : r.ingredient_id # id},
        !.daily_logs = {r \in @ : r.ingredient_id # id}]

\* delete_ingredient with no cascade into daily_logs.
delete_ingredient_keeps_logs(db, id) ==
    LET infos == {n.id : n \in {m \in db.nutritional_info : m.ingredient_id = id}}
    IN  [db EXCEPT
            !.ingredients = {r \in @ : r.id # id},
            !.ingredient_categories = {r \in @ : r.ingredient_id # id},
            !.nutritional_info = {r \in @ : r.ingredient_id # id},
            !.nutrient_sets =
                [t \in NutrientTables |-> {r \in @[t] : r.nutrition_info_id \notin infos}]]

\* DELETE FROM ingredients WHERE id = ..., with the ON DELETE CASCADE of
\* ingredient_categories, nutritional_info (and through it the nutrient
\* tables) and daily_logs.
delete_ingredient(db, id) ==
    LET infos == {n.id : n \in {m \in db.nutritional_info : m.ingredient_id = id}}
    IN  [db EXCEPT
            !.ingredients = {r \in @ : r.id # id},
            !.ingredient_categories = {r \in @ : r.ingredient_id # id},
            !.nutritional_info = {r \in @ : r.ingredient_id # id},
            !.nutrient_sets =
                [t \in NutrientTables |-> {r \in @[t] : r.nutrition_info_id \notin infos}],
            !.daily_logs = {r \in @ : r.ingredient_id # id}]

\* delete_category cascading through the join table into ingredients.
delete_category_and_ingredients(db, id) ==
    LET linked == {r.ingredient_id : r \in {l \in db.ingredient_categories : l.category_id = id}}
    IN  [db EXCEPT
            !.categories = {r \in @ : r.id # id},
            !.ingredient_categories = {r \in @ : r.category_id # id},
            !.ingredients = {r \in @ : r.id \notin linked}]

\* DELETE FROM categories WHERE id = ..., with the ON DELETE CASCADE of
\* ingredient_categories.
delete_category(db, id) ==
    [db EXCEPT
        !.categories = {r \in @ : r.id # id},
        !.ingredient_categories = {r \in @ : r.category_id # id}]

\* delete_categories keeping on after a failed delete: the item is skipped
\* and the count of the others is returned.
RECURSIVE delete_categories_skips(_, _, _, _)
delete_categories_skips(db, list, row_count, error_at) ==
    IF list = <<>> THEN [db |-> db, result |-> Ok(row_count)]
    ELSE IF error_at = 1
    THEN delete_categories_skips(db, Tail(list), row_count, 0)
    ELSE delete_categories_skips(delete_category(db, Head(list)), Tail(list),
            row_count + Cardinality({c \in db.categories : c.id = Head(list)}),
            error_at - 1)

\* for category in categories { match self.delete_category(category) {..} }:
\* the delete of item error_at (0: none) returns Err, which ends the loop.
RECURSIVE delete_categories(_, _, _, _)
delete_categories(db, list, row_count, error_at) ==
    IF list = <<>> THEN [db |-> db, result |-> Ok(row_count)]
    ELSE IF error_at = 1 THEN [db |-> db, result |-> Err]
    ELSE delete_categories(delete_category(db, Head(list)), Tail(list),
            row_count + Cardinality({c \in db.categories : c.id = Head(list)}),
            error_at - 1)

RECURSIVE delete_ingredients(_, _, _, _)
delete_ingredients(db, list, row_count, error_at) ==
    IF list = <<>> THEN [db |-> db, result |-> Ok(row_count)]
    ELSE IF error_at = 1 THEN [db |-> db, result |-> Err]
    ELSE delete_ingredients(delete_ingredient(db, Head(list)), Tail(list),
            row_count + Cardinality({i \in db.ingredients : i.id = Head(list)}),
            error_at - 1)

\* The tables setup_tables creates, in its order; all of them exist once
\* Database::new has run, and no operation drops one.
SetupOrder ==
    <<"ingredients", "categories", "ingredient_categories", "nutritional_info">>
    \o NutrientOrder \o <<"daily_logs">>

Schema == {SetupOrder[k] : k \in 1..Len(SetupOrder)}

\* The database with a fresh, empty table t.
Emptied(db, t) ==
    IF t \in NutrientTables THEN [db EXCEPT !.nutrient_sets[t] = {}]
    ELSE [db EXCEPT ![t] = {}]

\* DROP TABLE IF EXISTS t; CREATE TABLE t (..)
CreateTable_replacing(db, t) == Emptied(db, t)

\* CREATE TABLE IF NOT EXISTS t (..)
CreateTableIfNotExists(db, t) == IF t \in Schema THEN db ELSE Emptied(db, t)

RECURSIVE CreateTables(_, _)
CreateTables(db, names) ==
    IF names = <<>> THEN db
    ELSE CreateTables(CreateTableIfNotExists(db, Head(names)), Tail(names))

setup_tables(db) == CreateTables(db, SetupOrder)

Write(db) ==
    /\ ingredients' = db.ingredients
    /\ categories' = db.categories
    /\ ingredient_categories' = db.ingredient_categories
    /\ nutritional_info' = db.nutritional_info
    /\ nutrient_sets' = db.nutrient_sets
    /\ daily_logs' = db.daily_logs
    /\ variables' = db.variables
    /\ in_transaction' = db.in_transaction

\* ------------------------------------------------------------------ actions
\* The session's budget: the rowids handed out so far in the three tables
\* the callers insert into stay below MaxRows together.
RoomFor(rows, max) ==
    /\ NextRowid(rows) <= max
    /\ NextRowid(ingredients) + NextRowid(categories) + NextRowid(daily_logs) - 3 < MaxRows

Init ==
    /\ ingredients = {}
    /\ categories = {}
    /\ ingredient_categories = {}
    /\ nutritional_info = {}
    /\ nutrient_sets = [t \in NutrientTables |-> {}]
    /\ daily_logs = {}
    /\ variables = NoTable
    /\ in_transaction = FALSE
    /\ panicked = FALSE
    /\ last = [op |-> "new"]
    /\ context = MyContext

InsertCategory ==
    /\ ~panicked
    /\ RoomFor(categories, MaxCategories)
    /\ categories' = categories \cup {[id |-> NextRowid(categories)]}
    /\ last' = [op |-> "insert_category", id |-> NextRowid(categories)]
    /\ UNCHANGED <<ingredients, ingredient_categories, nutritional_info, nutrient_sets,
                   daily_logs, variables, in_transaction, panicked, context>>

\* delete_category counting the cascaded ingredient_categories rows too.
DeleteCategory_counts_cascade(id) ==
    /\ ~panicked
    /\ Write(delete_category(Database, id))
    /\ last' = [op |-> "delete_category", id |-> id,
                result |-> Returned(Cardinality({c \in categories : c.id = id})
                    + Cardinality({r \in ingredient_categories : r.category_id = id})),
                links |-> Cardinality({r \in ingredient_categories : r.category_id = id})]
    /\ UNCHANGED <<panicked, context>>

\* Statement::execute returns sqlite3_changes: the rows the DELETE itself
\* removed, without the rows the foreign-key cascade removed.
DeleteCategory(id) ==
    /\ ~panicked
    /\ Write(delete_category(Database, id))
    /\ last' = [op |-> "delete_category", id |-> id,
                result |-> Returned(Cardinality({c \in categories : c.id = id})),
                links |-> Cardinality({r \in ingredient_categories : r.category_id = id})]
    /\ UNCHANGED <<panicked, context>>

InsertIngredient(ingredient) ==
    /\ ~panicked
    /\ RoomFor(ingredients, MaxIngredients)
    /\ NextRowid(ingredient_categories) + Len(ingredient.categories) <= MaxLinks + 1
    /\ LET db == insert_ingredient(Database, ingredient)
           new == Ids(db.ingredients) \ Ids(ingredients)
       IN  /\ Write(db)
           /\ last' = [op |-> "insert_ingredient", ingredient |-> ingredient,
                       id |-> IF new = {} THEN Null ELSE Max(new),
                       failed |-> db.failed]
    /\ UNCHANGED <<panicked, context>>

DeleteIngredient(id) ==
    /\ ~panicked
    /\ Write(delete_ingredient(Database, id))
    /\ last' = [op |-> "delete_ingredient", id |-> id,
                result |-> Returned(Cardinality({i \in ingredients : i.id = id})),
                infos |-> {n.id : n \in {m \in nutritional_info : m.ingredient_id = id}},
                links |-> Cardinality({r \in ingredient_categories : r.ingredient_id = id}),
                logs |-> Cardinality({r \in daily_logs : r.ingredient_id = id})]
    /\ UNCHANGED <<panicked, context>>

\* error_at: the item whose DELETE the database refuses (an I/O error, a
\* locked file); 0 when none is refused.
DeleteCategories(list, error_at) ==
    /\ ~panicked
    /\ LET r == delete_categories(Database, list, 0, error_at)
       IN  /\ Write(r.db)
           /\ last' = [op |-> "delete_categories", list |-> list,
                       error_at |-> error_at, result |-> r.result]
    /\ UNCHANGED <<panicked, context>>

DeleteIngredients(list, error_at) ==
    /\ ~panicked
    /\ LET r == delete_ingredients(Database, list, 0, error_at)
       IN  /\ Write(r.db)
           /\ last' = [op |-> "delete_ingredients", list |-> list,
                       error_at |-> error_at, result |-> r.result]
    /\ UNCHANGED <<panicked, context>>

\* Schema setup run again on the open connection.
SetupTables ==
    /\ ~panicked
    /\ Write(setup_tables(Database))
    /\ last' = [op |-> "setup_tables"]
    /\ UNCHANGED <<panicked, context>>

\* insert_log_entry on a connection that does not enforce foreign keys.
InsertLogEntry_unchecked(date, id, fraction) ==
    /\ ~panicked
    /\ RoomFor(daily_logs, MaxLogs)
    /\ daily_logs' = daily_logs \cup
            {[id |-> NextRowid(daily_logs), date |-> date,
              ingredient_id |-> id, fraction |-> fraction]}
    /\ last' = [op |-> "insert_log_entry", date |-> date, id |-> id,
                fraction |-> fraction, result |-> Returned(NextRowid(daily_logs))]
    /\ UNCHANGED <<ingredients, categories, ingredient_categories, nutritional_info,
                   nutrient_sets, variables, in_transaction, panicked, context>>

\* The INSERT is unwrapped: a foreign-key violation is a panic.
InsertLogEntry(date, id, fraction) ==
    /\ ~panicked
    /\ RoomFor(daily_logs, MaxLogs)
    /\ IF id \in Ids(ingredients)
       THEN /\ daily_logs' = daily_logs \cup
                    {[id |-> NextRowid(daily_logs), date |-> date,
                      ingredient_id |-> id, fraction |-> fraction]}
            /\ last' = [op |-> "insert_log_entry", date |-> date, id |-> id,
                        fraction |-> fraction, result |-> Returned(NextRowid(daily_logs))]
            /\ UNCHANGED panicked
       ELSE /\ panicked' = TRUE
            /\ last' = [op |-> "insert_log_entry", date |-> date, id |-> id,
                        fraction |-> fraction, result |-> Unwound]
            /\ UNCHANGED daily_logs
    /\ UNCHANGED <<ingredients, categories, ingredient_categories, nutritional_info,
                   nutrient_sets, variables, in_transaction, context>>

\* A reader changes nothing unless it unwinds.
Read(call, result) ==
    /\ IF result.returned
       THEN UNCHANGED <<last, panicked>>
       ELSE /\ last' = call @@ [result |-> result]
            /\ panicked' = TRUE
    /\ UNCHANGED <<tables, variables, in_transaction, context>>

GetCategories ==
    /\ ~panicked
    /\ Read([op |-> "get_categories"], get_categories)

GetIngredients ==
    /\ ~panicked
    /\ Read([op |-> "get_ingredients"], get_ingredients)

GetIngredientById(id) ==
    /\ ~panicked
    /\ Read([op |-> "get_ingredient_by_id", id |-> id], get_ingredient_by_id(id))

GetLogEntries(date) ==
    /\ ~panicked
    /\ Read([op |-> "get_log_entries", date |-> date], get_log_entries(date))

IngredientIds == 1..MaxIngredients
CategoryIds == 1..MaxCategories

\* The category lists: every selection of category ids, in id order.
Selections ==
    {InKeyOrder(S, [c \in S |-> <<c>>]) : S \in SUBSET CategoryIds}

\* The lists handed to delete_categories and delete_ingredients: up to
\* MaxList of the ids, each once, in any order.
RECURSIVE Orders(_)
Orders(S) ==
    IF S = {} THEN {<<>>}
    ELSE UNION {{<<x>> \o rest : rest \in Orders(S \ {x})} : x \in S}

DeleteLists(ids) ==
    UNION {Orders(S) : S \in {T \in SUBSET ids : Cardinality(T) <= MaxList}}

\* The ingredients handed to insert_ingredient; the name with a quote in it
\* comes with one category list and one profile.
Ingredients ==
    [name : {"oat"}, categories : Selections, nutritional_info : InfoLists]
    \cup {[name |-> "o'at", categories |-> <<>>, nutritional_info |-> <<Tenths>>]}

Next ==
    \/ InsertCategory
    \/ \E id \in CategoryIds : DeleteCategory(id)
    \/ \E ingredient \in Ingredients : InsertIngredient(ingredient)
    \/ \E id \in IngredientIds : DeleteIngredient(id)
    \/ \E date \in Dates, id \in IngredientIds, fraction \in Fractions :
            InsertLogEntry(date, id, fraction)
    \/ SetupTables
    \/ GetCategories
    \/ GetIngredients
    \/ \E id \in IngredientIds : GetIngredientById(id)
    \/ \E date \in Dates : GetLogEntries(date)

Spec == Init /\ [][Next]_vars

\* The list deletes, each a run of single deletes that an error cuts short,
\* over the stores the inserting operations build.
NextLists ==
    \/ InsertCategory
    \/ \E selection \in Selections :
            InsertIngredient([name |-> "oat", categories |-> selection,
                              nutritional_info |-> <<Tenths>>])
    \/ \E list \in DeleteLists(CategoryIds) : \E error_at \in 0..Len(list) :
            DeleteCategories(list, error_at)
    \/ \E list \in DeleteLists(IngredientIds) : \E error_at \in 0..Len(list) :
            DeleteIngredients(list, error_at)

SpecLists == Init /\ [][NextLists]_vars

\* The integers a default_unit column can hold when the file is opened: the
\* column is a plain INTEGER, so a file written by anything else may carry a
\* code that is no unit. A negative one fails the u32 conversion of row.get
\* and unwinds at the reader's unwrap, as the decoder's panic does.
StoredCodes == -1..MaxCode

\* A file that already holds complete ingredients when Database::new opens
\* it, with any stored default_unit codes.
InitStored ==
    \E n \in 0..MaxIngredients : \E codes \in [1..n -> StoredCodes] :
        /\ ingredients = {[id |-> k, name |-> "oat"] : k \in 1..n}
        /\ categories = {}
        /\ ingredient_categories = {}
        /\ nutritional_info =
                {[id |-> k, default_amount |-> FormatP1(Tenths.default_amount),
                  default_unit |-> codes[k],
                  kilocalories |-> FormatP1(Tenths.kilocalories),
                  ingredient_id |-> k] : k \in 1..n}
        /\ nutrient_sets =
                [t \in NutrientTables |->
                    {[id |-> k, nutrition_info_id |-> k,
                      amount |-> FormatP1(Tenths.groups[t])] : k \in 1..n}]
        /\ daily_logs = {}
        /\ variables = NoTable
        /\ in_transaction = FALSE
        /\ panicked = FALSE
        /\ last = [op |-> "new"]
        /\ context = MyContext

NextStored ==
    \/ InsertIngredient([name |-> "oat", categories |-> <<>>,
                         nutritional_info |-> <<Tenths>>])
    \/ GetIngredients
    \/ \E id \in IngredientIds : GetIngredientById(id)

SpecStored == InitStored /\ [][NextStored]_vars

\* ------------------------------------------------------- calorie estimate
\* Amounts of the estimate are counted in half grams and energy in half
\* kilocalories, so that half of a whole number of grams is exact, as it is
\* in f32.
Grams(g) == 2 * g

EssentialAminoAcids ==
    {"histidine", "isoleucine", "leucine", "lysine", "methionine",
     "phenylalanine", "threonine", "tryptophan", "valine"}

NonEssentialAminoAcids ==
    {"alanine", "arginine", "asparagine", "aspartic_acid", "cysteine",
     "glutamic_acid", "glutamine", "glycine", "proline", "serine", "tyrosine"}

Fats == {"saturated", "monounsaturated", "polyunsaturated"}

Carbohydrates == {"starch", "fiber", "sugars", "sugar_alcohols"}

MacroFields == EssentialAminoAcids \cup NonEssentialAminoAcids \cup Fats \cup Carbohydrates

\* The Macronutrients value with the given amount in each field.
Macronutrients(amount) ==
    [proteins |->
        [essential_amino_acids |-> [f \in EssentialAminoAcids |-> amount[f]],
         non_essential_amino_acids |-> [f \in NonEssentialAminoAcids |-> amount[f]]],
     fats |-> [f \in Fats |-> amount[f]],
     carbohydrates |-> [f \in Carbohydrates |-> amount[f]]]

essential_total(self) ==
    self.histidine + self.isoleucine + self.leucine + self.lysine
        + self.methionine + self.phenylalanine + self.threonine
        + self.tryptophan + self.valine

non_essential_total(self) ==
    self.alanine + self.arginine + self.asparagine + self.aspartic_acid
        + self.cysteine + self.glutamic_acid + self.glutamine + self.glycine
        + self.proline + self.serine + self.tyrosine

total_proteins(self) ==
    essential_total(self.essential_amino_acids)
        + non_essential_total(self.non_essential_amino_acids)

total_fats(self) == self.saturated + self.monounsaturated + self.polyunsaturated

total_carbs(self) == self.starch + self.fiber + self.sugars + self.sugar_alcohols

\* Net carbohydrates that count the fiber.
net_carbs_with_fiber(self) ==
    self.starch + self.fiber + self.sugars + (self.sugar_alcohols \div 2)

\* 0.5 * self.sugar_alcohols
net_carbs(self) == self.starch + self.sugars + (self.sugar_alcohols \div 2)

estimate_calories(self) ==
    total_proteins(self.proteins) * 4
        + total_fats(self.fats) * 9
        + net_carbs(self.carbohydrates) * 4

NoMacros == [f \in MacroFields |-> 0]

\* 10 g of histidine, no fat, 20 g starch, 5 g fiber, 5 g sugars and 4 g
\* sugar alcohols.
Example ==
    Macronutrients([NoMacros EXCEPT !["histidine"] = Grams(10),
                                    !["starch"] = Grams(20),
                                    !["fiber"] = Grams(5),
                                    !["sugars"] = Grams(5),
                                    !["sugar_alcohols"] = Grams(4)])

\* The values estimated: the example, and every value with whole grams up to
\* MaxGrams in at most two fields and nothing in the others.
MacronutrientValues ==
    {Example} \cup
    {Macronutrients([NoMacros EXCEPT ![f] = Grams(a), ![g] = Grams(b)]) :
        f \in MacroFields, g \in MacroFields, a \in 0..MaxGrams, b \in 1..MaxGrams}

\* A Macronutrients value in memory, next to an empty store.
InitCalories ==
    \E macronutrients \in MacronutrientValues :
        /\ ingredients = {}
        /\ categories = {}
        /\ ingredient_categories = {}
        /\ nutritional_info = {}
        /\ nutrient_sets = [t \in NutrientTables |-> {}]
        /\ daily_logs = {}
        /\ variables = NoTable
        /\ in_transaction = FALSE
        /\ panicked = FALSE
        /\ last = [op |-> "macronutrients", macronutrients |-> macronutrients]
        /\ context = MyContext

\* NutritionalInfo::estimate_calories on the value; the store is not involved.
EstimateCalories ==
    /\ last.op = "macronutrients"
    /\ last' = [op |-> "estimate_calories", macronutrients |-> last.macronutrients,
                result |-> estimate_calories(last.macronutrients)]
    /\ UNCHANGED <<tables, variables, in_transaction, panicked, context>>

NextCalories == EstimateCalories

SpecCalories == InitCalories /\ [][NextCalories]_vars

Units == {Unit[k] : k \in 1..Len(Unit)}

\* Ingredients of every default unit, written and read back.
NextUnits ==
    \/ InsertCategory
    \/ \E unit \in Units, selection \in Selections :
            InsertIngredient([name |-> "oat", categories |-> selection,
                              nutritional_info |->
                                <<NutritionalInfo(4, unit, 4, Uniform(4))>>])
    \/ \E id \in IngredientIds : DeleteIngredient(id)
    \/ \E id \in IngredientIds : GetIngredientById(id)

SpecUnits == Init /\ [][NextUnits]_vars

\* ------------------------------------------------------------------ the UI
\* Each action below is one call of TabViewer::ui for a tab, with the one
\* widget event of that frame. Which tabs are drawn in a frame, and so the
\* order of these calls, follows the tabs the user has brought to the front.

\* vec[idx] with a usize index: out of bounds is a panic.
InBounds(idx, vec) == idx < Len(vec)
At(vec, idx) == vec[idx + 1]

\* What a frame leaves behind: the context, the database, and whether the
\* frame unwound.
Frame(event, calls, ctx, db, panics) ==
    /\ last' = [op |-> "ui", event |-> event, calls |-> calls]
    /\ panicked' = panics
    /\ context' = IF panics THEN context ELSE ctx
    /\ Write(db)

\* The reload without the flag it raises for the Daily Log tab.
reload_ingredients_only(ctx) ==
    IF ctx.update_ingredients
    THEN [ctx EXCEPT !.update_ingredients = FALSE,
                     !.ingredients_list = get_ingredients.value]
    ELSE ctx

\* if self.update_ingredients { .. get_ingredients() .. update_log_entries = true }
reload_ingredients(ctx) ==
    IF ctx.update_ingredients
    THEN [ctx EXCEPT !.update_ingredients = FALSE,
                     !.ingredients_list = get_ingredients.value,
                     !.update_log_entries = TRUE]
    ELSE ctx

\* if self.update_categories { .. get_categories() }
reload_categories(ctx) ==
    IF ctx.update_categories
    THEN [ctx EXCEPT !.update_categories = FALSE,
                     !.categories_list = get_categories.value]
    ELSE ctx

\* The "Ingredients" arm of TabViewer::ui, up to ingredients_view.
ingredients_tab(ctx) ==
    reload_categories(reload_ingredients([ctx EXCEPT !.selected_category = None]))

ingredients_tab_panics(ctx) == ctx.update_ingredients /\ ~get_ingredients.returned

\* The "Categories" arm of TabViewer::ui, up to categories_view.
categories_tab(ctx) ==
    reload_categories([ctx EXCEPT !.selected_ingredient = None])

\* details_view indexes the list with the selection before it draws.
details_view_panics(ctx) ==
    IF ctx.selected_ingredient # None
    THEN ~InBounds(ctx.selected_ingredient[1], ctx.ingredients_list)
    ELSE ctx.selected_category # None
            /\ ~InBounds(ctx.selected_category[1], ctx.categories_list)

\* The selection after a delete that returned Ok.
ingredient_deleted(ctx) ==
    LET c == [ctx EXCEPT !.update_ingredients = TRUE]
    IN  IF Len(c.ingredients_list) = 1
        THEN [c EXCEPT !.selected_ingredient = None]
        ELSE IF c.selected_ingredient # None
                /\ c.selected_ingredient[1] = Len(c.ingredients_list) - 1
        THEN [c EXCEPT !.selected_ingredient = Some(c.selected_ingredient[1] - 1)]
        ELSE c

\* The handler without the reload of the ingredients that were in the category.
category_deleted_keeps_ingredients(ctx, result) ==
    LET c == [ctx EXCEPT !.update_categories = TRUE]
    IN  IF Len(c.categories_list) = 1
        THEN [c EXCEPT !.selected_category = None]
        ELSE IF c.selected_category # None
                /\ c.selected_category[1] = Len(c.categories_list) - 1
        THEN [c EXCEPT !.selected_category = Some(c.selected_category[1] - 1)]
        ELSE c

category_deleted(ctx, result) ==
    LET c == [ctx EXCEPT !.update_categories = TRUE,
                         !.update_ingredients = IF result > 0 THEN TRUE ELSE @]
    IN  IF Len(c.categories_list) = 1
        THEN [c EXCEPT !.selected_category = None]
        ELSE IF c.selected_category # None
                /\ c.selected_category[1] = Len(c.categories_list) - 1
        THEN [c EXCEPT !.selected_category = Some(c.selected_category[1] - 1)]
        ELSE c

\* A frame of the Ingredients tab with no event.
IngredientsTab ==
    /\ ~panicked
    /\ Frame("ingredients", 0, ingredients_tab(context), Database,
             ingredients_tab_panics(context))

\* row.response().clicked() in ingredients_view
IngredientRowClicked(row_index) ==
    /\ ~panicked
    /\ LET ctx == ingredients_tab(context)
       IN  /\ ~ingredients_tab_panics(context) => InBounds(row_index, ctx.ingredients_list)
           /\ Frame("ingredient_row", 0,
                    [ctx EXCEPT !.selected_ingredient = Some(row_index)],
                    Database, ingredients_tab_panics(context))

\* A frame of the Categories tab with no event.
CategoriesTab ==
    /\ ~panicked
    /\ Frame("categories", 0, categories_tab(context), Database, FALSE)

\* row.response().clicked() in categories_view
CategoryRowClicked(row_index) ==
    /\ ~panicked
    /\ LET ctx == categories_tab(context)
       IN  /\ InBounds(row_index, ctx.categories_list)
           /\ Frame("category_row", 0,
                    [ctx EXCEPT !.selected_category = Some(row_index)],
                    Database, FALSE)

\* A frame of the Details tab with no event.
DetailsTab ==
    /\ ~panicked
    /\ Frame("details", 0, context, Database, details_view_panics(context))

\* Delete clicked in details_view with an ingredient selected; ok is whether
\* delete_ingredient returned Ok.
DeleteIngredientClicked(ok) ==
    /\ ~panicked
    /\ context.selected_ingredient # None
    /\ IF details_view_panics(context)
       THEN Frame("delete_ingredient", 0, context, Database, TRUE)
       ELSE LET ingredient == At(context.ingredients_list, context.selected_ingredient[1])
            IN  IF ok
                THEN Frame("delete_ingredient", 1, ingredient_deleted(context),
                           delete_ingredient(Database, ingredient.id), FALSE)
                ELSE Frame("delete_ingredient", 1, context, Database, FALSE)

\* Delete clicked in details_view with a category selected.
DeleteCategoryClicked(ok) ==
    /\ ~panicked
    /\ context.selected_ingredient = None
    /\ context.selected_category # None
    /\ IF details_view_panics(context)
       THEN Frame("delete_category", 0, context, Database, TRUE)
       ELSE LET category == At(context.categories_list, context.selected_category[1])
                result == Cardinality({c \in categories : c.id = category})
            IN  IF ok
                THEN Frame("delete_category", 1, category_deleted(context, result),
                           delete_category(Database, category), FALSE)
                ELSE Frame("delete_category", 1, context, Database, FALSE)

\* ----------------------------------------------- the new-ingredient dialog
\* "New ingredient" is enabled while the dialog is closed.
NewIngredientClicked ==
    /\ ~panicked
    /\ ~context.show_new_ingredient_dialog
    /\ Frame("new_ingredient", 0,
             [ingredients_tab(context) EXCEPT
                !.show_new_ingredient_dialog = TRUE,
                !.new_ingredient_nutritional_info =
                    Some(NutritionalInfo(40, "Grams", 0, Uniform(0)))],
             Database, ingredients_tab_panics(context))

\* text_edit_singleline(&mut self.new_ingredient_name)
IngredientNameEdited(name) ==
    /\ ~panicked
    /\ context.show_new_ingredient_dialog
    /\ name # context.new_ingredient_name
    /\ Frame("ingredient_name", 0,
             [ingredients_tab(context) EXCEPT
                !.new_ingredient_name = name,
                !.new_ingredient_name_was_empty = IF name # "" THEN FALSE ELSE @],
             Database, ingredients_tab_panics(context))

\* selectable_value(&mut self.new_ingredient_unit, unit, ..)
IngredientUnitSelected(unit) ==
    /\ ~panicked
    /\ context.show_new_ingredient_dialog
    /\ Frame("ingredient_unit", 0,
             [ingredients_tab(context) EXCEPT !.new_ingredient_unit = unit],
             Database, ingredients_tab_panics(context))

\* Vec::remove(position of idx), or push(idx)
toggle(selected, idx) ==
    IF \E k \in 1..Len(selected) : selected[k] = idx
    THEN SelectSeq(selected, LAMBDA x : x # idx)
    ELSE Append(selected, idx)

\* The toggle image of category idx of categories_list.
IngredientCategoryToggled(idx) ==
    /\ ~panicked
    /\ context.show_new_ingredient_dialog
    /\ LET ctx == ingredients_tab(context)
       IN  /\ ~ingredients_tab_panics(context) => InBounds(idx, ctx.categories_list)
           /\ Frame("ingredient_category", 0,
                    [ctx EXCEPT !.new_ingredient_selected_categories = toggle(@, idx)],
                    Database, ingredients_tab_panics(context))

\* clear!() of new_ingredient
clear(ctx) ==
    [ctx EXCEPT !.new_ingredient_name = "",
                !.new_ingredient_name_was_empty = FALSE,
                !.new_ingredient_amount = 40,
                !.new_ingredient_selected_categories = <<>>,
                !.new_ingredient_calories = 0]

\* cancel!() of new_ingredient
cancel(ctx) == [clear(ctx) EXCEPT !.show_new_ingredient_dialog = FALSE]

\* self.categories_list[*n] for each selected index
create_panics(ctx) ==
    \E k \in 1..Len(ctx.new_ingredient_selected_categories) :
        ~InBounds(ctx.new_ingredient_selected_categories[k], ctx.categories_list)

\* The Ingredient that create!() hands to insert_ingredient.
new_ingredient(ctx) ==
    [name |-> ctx.new_ingredient_name,
     categories |->
        [k \in 1..Len(ctx.new_ingredient_selected_categories) |->
            At(ctx.categories_list, ctx.new_ingredient_selected_categories[k])],
     nutritional_info |->
        <<[ctx.new_ingredient_nutritional_info[1] EXCEPT
            !.default_amount = ctx.new_ingredient_amount,
            !.default_unit = ctx.new_ingredient_unit,
            !.kilocalories = ctx.new_ingredient_calories]>>]

\* create!() of new_ingredient
CreateIngredientClicked ==
    /\ ~panicked
    /\ context.show_new_ingredient_dialog
    /\ LET ctx == ingredients_tab(context)
       IN  IF ingredients_tab_panics(context)
           THEN Frame("create_ingredient", 0, context, Database, TRUE)
           ELSE IF Len(ctx.new_ingredient_name) = 0
           THEN Frame("create_ingredient", 0,
                      [ctx EXCEPT !.new_ingredient_name_was_empty = TRUE],
                      Database, FALSE)
           ELSE IF create_panics(ctx)
           THEN Frame("create_ingredient", 0, context, Database, TRUE)
           ELSE /\ RoomFor(ingredients, MaxIngredients)
                /\ NextRowid(ingredient_categories)
                        + Len(ctx.new_ingredient_selected_categories) <= MaxLinks + 1
                /\ Frame("create_ingredient", 1,
                         cancel([ctx EXCEPT
                            !.new_ingredient_nutritional_info =
                                new_ingredient(ctx).nutritional_info,
                            !.update_ingredients = TRUE]),
                         insert_ingredient(Database, new_ingredient(ctx)), FALSE)

ClearIngredientClicked ==
    /\ ~panicked
    /\ context.show_new_ingredient_dialog
    /\ Frame("clear_ingredient", 0, clear(ingredients_tab(context)), Database,
             ingredients_tab_panics(context))

CancelIngredientClicked ==
    /\ ~panicked
    /\ context.show_new_ingredient_dialog
    /\ Frame("cancel_ingredient", 0, cancel(ingredients_tab(context)), Database,
             ingredients_tab_panics(context))

\* ------------------------------------------------- the new-category dialog
NewCategoryClicked ==
    /\ ~panicked
    /\ ~context.show_new_category_dialog
    /\ Frame("new_category", 0,
             [categories_tab(context) EXCEPT !.show_new_category_dialog = TRUE],
             Database, FALSE)

\* text_edit_singleline(&mut self.new_category_name)
CategoryNameEdited(name) ==
    /\ ~panicked
    /\ context.show_new_category_dialog
    /\ name # context.new_category_name
    /\ Frame("category_name", 0,
             [categories_tab(context) EXCEPT
                !.new_category_name = name,
                !.new_category_name_was_empty = IF name # "" THEN FALSE ELSE @],
             Database, FALSE)

\* A toggle image of the icon grid; the grid is drawn before the check that
\* takes the icon warning back.
CategoryIconSelected(idx) ==
    /\ ~panicked
    /\ context.show_new_category_dialog
    /\ Frame("category_icon", 0,
             [categories_tab(context) EXCEPT
                !.new_category_selected_icon = Some(idx),
                !.new_category_selected_icon_was_invalid = FALSE],
             Database, FALSE)

\* clear_category!()
clear_category(ctx) ==
    [ctx EXCEPT !.new_category_name = "",
                !.new_category_name_was_empty = FALSE,
                !.new_category_selected_icon = None,
                !.new_category_selected_icon_was_invalid = FALSE]

\* cancel_category!()
cancel_category(ctx) == [clear_category(ctx) EXCEPT !.show_new_category_dialog = FALSE]

\* Whether insert_category is reached: valid_name && valid_icon
valid_category(ctx) ==
    Len(ctx.new_category_name) > 0 /\ ctx.new_category_selected_icon # None

\* INSERT INTO categories (name, icon_name, icon_color) VALUES (?1, ?2, ?3)
insert_category(db) ==
    [db EXCEPT !.categories = @ \cup {[id |-> NextRowid(db.categories)]}]

\* create_category!(); the icon warning set here is taken back in the same
\* frame when an icon is selected (the grid is drawn first).
CreateCategoryClicked ==
    /\ ~panicked
    /\ context.show_new_category_dialog
    /\ LET ctx == categories_tab(context)
           flagged == [ctx EXCEPT
                !.new_category_name_was_empty =
                    IF Len(ctx.new_category_name) > 0 THEN @ ELSE TRUE,
                !.new_category_selected_icon_was_invalid =
                    IF ctx.new_category_selected_icon # None THEN @ ELSE TRUE]
       IN  IF valid_category(ctx)
           THEN /\ RoomFor(categories, MaxCategories)
                /\ Frame("create_category", 1,
                         cancel_category([flagged EXCEPT !.update_categories = TRUE]),
                         insert_category(Database), FALSE)
           ELSE Frame("create_category", 0, flagged, Database, FALSE)

ClearCategoryClicked ==
    /\ ~panicked
    /\ context.show_new_category_dialog
    /\ Frame("clear_category", 0, clear_category(categories_tab(context)),
             Database, FALSE)

CancelCategoryClicked ==
    /\ ~panicked
    /\ context.show_new_category_dialog
    /\ Frame("cancel_category", 0, cancel_category(categories_tab(context)),
             Database, FALSE)

\* ------------------------------------------------------ the Daily Log tab
\* The "Daily Log" arm of TabViewer::ui, up to daily_log_view:
\* if self.update_log_entries { .. get_log_entries(&self.date.unwrap()) }
daily_log_tab(ctx) ==
    IF ctx.update_log_entries
    THEN [ctx EXCEPT !.update_log_entries = FALSE,
                     !.log_entry_list = get_log_entries(ctx.date).value]
    ELSE ctx

daily_log_tab_panics(ctx) ==
    ctx.update_log_entries /\ ~get_log_entries(ctx.date).returned

\* A frame of the Daily Log tab with no event.
DailyLogTab ==
    /\ ~panicked
    /\ Frame("daily_log", 0, daily_log_tab(context), Database,
             daily_log_tab_panics(context))

\* DatePickerButton::new(date) .. .changed()
DateChanged(date) ==
    /\ ~panicked
    /\ date # context.date
    /\ Frame("date", 0,
             [daily_log_tab(context) EXCEPT !.date = date, !.update_log_entries = TRUE],
             Database, daily_log_tab_panics(context))

\* "New log entry" is enabled while the dialog is closed.
NewLogEntryClicked ==
    /\ ~panicked
    /\ ~context.show_new_log_entry_dialog
    /\ Frame("new_log_entry", 0,
             [daily_log_tab(context) EXCEPT !.show_new_log_entry_dialog = TRUE],
             Database, daily_log_tab_panics(context))

\* A search text of two or more letters that differs from the previous one:
\* the ingredients of ingredients_list whose name contains it (here all).
LogEntrySearched ==
    /\ ~panicked
    /\ context.show_new_log_entry_dialog
    /\ Frame("log_entry_search", 0,
             [daily_log_tab(context) EXCEPT
                !.new_log_entry_filtered_ingredients = context.ingredients_list],
             Database, daily_log_tab_panics(context))

\* selectable_value(&mut self.new_log_entry_selected_ingredient, Some(..), ..)
LogEntryIngredientSelected(idx) ==
    /\ ~panicked
    /\ context.show_new_log_entry_dialog
    /\ InBounds(idx, context.new_log_entry_filtered_ingredients)
    /\ Frame("log_entry_ingredient", 0,
             [daily_log_tab(context) EXCEPT
                !.new_log_entry_selected_ingredient =
                    Some(At(context.new_log_entry_filtered_ingredients, idx))],
             Database, daily_log_tab_panics(context))

\* clear_log_entry!()
clear_log_entry(ctx) ==
    [ctx EXCEPT !.new_log_entry_fraction = 40,
                !.new_log_entry_filtered_ingredients = <<>>,
                !.new_log_entry_selected_ingredient = None]

\* cancel_log_entry!()
cancel_log_entry(ctx) == [clear_log_entry(ctx) EXCEPT !.show_new_log_entry_dialog = FALSE]

\* INSERT INTO daily_logs (date, ingredient_id, fraction) VALUES (?1, ?2, ?3)
insert_log_entry(db, date, log_entry) ==
    [db EXCEPT !.daily_logs = @ \cup
        {[id |-> NextRowid(db.daily_logs), date |-> date,
          ingredient_id |-> log_entry.ingredient.id,
          fraction |-> log_entry.fraction]}]

\* create_log_entry!(); the insert unwraps, so an ingredient_id that is no
\* longer in ingredients unwinds.
CreateLogEntryClicked ==
    /\ ~panicked
    /\ context.show_new_log_entry_dialog
    /\ LET ctx == daily_log_tab(context)
       IN  IF daily_log_tab_panics(context)
           THEN Frame("create_log_entry", 0, context, Database, TRUE)
           ELSE IF ctx.new_log_entry_selected_ingredient = None
           THEN Frame("create_log_entry", 0, ctx, Database, FALSE)
           ELSE LET log_entry ==
                        [id |-> 0,
                         ingredient |-> ctx.new_log_entry_selected_ingredient[1],
                         fraction |-> ctx.new_log_entry_fraction]
                IN  IF log_entry.ingredient.id \notin Ids(ingredients)
                    THEN Frame("create_log_entry", 1, context, Database, TRUE)
                    ELSE /\ RoomFor(daily_logs, MaxLogs)
                         /\ Frame("create_log_entry", 1,
                                  cancel_log_entry([ctx EXCEPT !.update_log_entries = TRUE]),
                                  insert_log_entry(Database, ctx.date, log_entry), FALSE)

CancelLogEntryClicked ==
    /\ ~panicked
    /\ context.show_new_log_entry_dialog
    /\ Frame("cancel_log_entry", 0, cancel_log_entry(daily_log_tab(context)),
             Database, daily_log_tab_panics(context))

\* A file that already holds ingredients and categories when Database::new
\* opens it: ingredient k complete, and in category k when there is one.
StoredFile(n, m) ==
    /\ ingredients = {[id |-> k, name |-> "oat"] : k \in 1..n}
    /\ categories = {[id |-> k] : k \in 1..m}
    /\ ingredient_categories =
            {[id |-> k, ingredient_id |-> k, category_id |-> k] :
                k \in (1..n) \cap (1..m)}
    /\ nutritional_info =
            {[id |-> k, default_amount |-> FormatP1(Tenths.default_amount),
              default_unit |-> as_u8(Tenths.default_unit),
              kilocalories |-> FormatP1(Tenths.kilocalories),
              ingredient_id |-> k] : k \in 1..n}
    /\ nutrient_sets =
            [t \in NutrientTables |->
                {[id |-> k, nutrition_info_id |-> k,
                  amount |-> FormatP1(Tenths.groups[t])] : k \in 1..n}]
    /\ variables = NoTable
    /\ in_transaction = FALSE
    /\ panicked = FALSE
    /\ last = [op |-> "new"]
    /\ context = MyContext

InitSelections ==
    \E n \in 0..MaxIngredients, m \in 0..MaxCategories :
        StoredFile(n, m) /\ daily_logs = {}

\* Rows selected and deleted from the Details tab, in any order of frames.
NextSelections ==
    \/ IngredientsTab
    \/ \E row_index \in 0..(MaxIngredients - 1) : IngredientRowClicked(row_index)
    \/ CategoriesTab
    \/ \E row_index \in 0..(MaxCategories - 1) : CategoryRowClicked(row_index)
    \/ DetailsTab
    \/ \E ok \in BOOLEAN : DeleteIngredientClicked(ok)
    \/ \E ok \in BOOLEAN : DeleteCategoryClicked(ok)

SpecSelections == InitSelections /\ [][NextSelections]_vars

Names == {"", "oat"}

InitDialogs == \E m \in 0..MaxCategories : StoredFile(0, m) /\ daily_logs = {}

\* The new-ingredient dialog, with categories selected and deleted meanwhile.
NextDialogs ==
    \/ IngredientsTab
    \/ NewIngredientClicked
    \/ \E name \in Names : IngredientNameEdited(name)
    \/ IngredientUnitSelected("Pieces")
    \/ \E idx \in 0..(MaxCategories - 1) : IngredientCategoryToggled(idx)
    \/ CreateIngredientClicked
    \/ ClearIngredientClicked
    \/ CancelIngredientClicked
    \/ CategoriesTab
    \/ \E row_index \in 0..(MaxCategories - 1) : CategoryRowClicked(row_index)
    \/ DetailsTab
    \/ DeleteCategoryClicked(TRUE)

SpecDialogs == InitDialogs /\ [][NextDialogs]_vars

\* A stored file whose first ingredients have one log entry each on the
\* first date.
InitLog ==
    \E n \in 0..MaxIngredients, m \in 0..1, logs \in 0..1 :
        /\ StoredFile(n, m)
        /\ daily_logs = {[id |-> k, date |-> "2024-01-01", ingredient_id |-> k,
                          fraction |-> 40] : k \in (1..n) \cap (1..logs)}

\* The Daily Log tab and its dialog, with ingredients and categories deleted
\* from the Details tab meanwhile.
NextLog ==
    \/ IngredientsTab
    \/ \E row_index \in 0..(MaxIngredients - 1) : IngredientRowClicked(row_index)
    \/ CategoriesTab
    \/ CategoryRowClicked(0)
    \/ DeleteIngredientClicked(TRUE)
    \/ DeleteCategoryClicked(TRUE)
    \/ DailyLogTab
    \/ \E date \in Dates : DateChanged(date)
    \/ NewLogEntryClicked
    \/ LogEntrySearched
    \/ \E idx \in 0..(MaxIngredients - 1) : LogEntryIngredientSelected(idx)
    \/ CreateLogEntryClicked
    \/ CancelLogEntryClicked

SpecLog == InitLog /\ [][NextLog]_vars

\* Both dialogs, with categories selected and deleted meanwhile.
NextCreate ==
    \/ NextDialogs
    \/ NewCategoryClicked
    \/ \E name \in Names : CategoryNameEdited(name)
    \/ CategoryIconSelected(0)
    \/ CreateCategoryClicked
    \/ ClearCategoryClicked
    \/ CancelCategoryClicked

SpecCreate == InitDialogs /\ [][NextCreate]_vars

\* Every create and delete the tabs offer, with the lists reloaded in any
\* order of frames.
NextCaches ==
    \/ IngredientsTab
    \/ \E row_index \in 0..(MaxIngredients - 1) : IngredientRowClicked(row_index)
    \/ NewIngredientClicked
    \/ IngredientNameEdited("oat")
    \/ CreateIngredientClicked
    \/ CategoriesTab
    \/ \E row_index \in 0..(MaxCategories - 1) : CategoryRowClicked(row_index)
    \/ NewCategoryClicked
    \/ CategoryNameEdited("oat")
    \/ CategoryIconSelected(0)
    \/ CreateCategoryClicked
    \/ DeleteIngredientClicked(TRUE)
    \/ DeleteCategoryClicked(TRUE)

SpecCaches == InitSelections /\ [][NextCaches]_vars

\* ------------------------------------------------------------------- claims
InfosOf(id) == {n \in nutritional_info : n.ingredient_id = id}

Complete(ni) == \A t \in NutrientTables : Cardinality(SetsOf(t, ni)) = 1

Finite(info) ==
    /\ info.default_amount # NaN
    /\ info.kilocalories # NaN
    /\ \A t \in NutrientTables : info.groups[t] # NaN

Inserted == last.op = "insert_ingredient"

\* The rows of the ingredient of the last insert_ingredient: all of them ...
AllRows ==
    /\ last.id \in Ids(ingredients)
    /\ \A k \in 1..Len(last.ingredient.categories) :
            \E r \in ingredient_categories :
                /\ r.ingredient_id = last.id
                /\ r.category_id = last.ingredient.categories[k]
    /\ Cardinality(InfosOf(last.id)) = Len(last.ingredient.nutritional_info)
    /\ \A ni \in InfosOf(last.id) : Complete(ni)

\* ... or none of them.
NoRows ==
    /\ last.id \notin Ids(ingredients)
    /\ \A r \in ingredient_categories : r.ingredient_id # last.id
    /\ InfosOf(last.id) = {}

FiniteInfos ==
    \A k \in 1..Len(last.ingredient.nutritional_info) :
        Finite(last.ingredient.nutritional_info[k])

\* C1: after insert_ingredient returns, the rows of that ingredient (its
\* ingredients row, one ingredient_categories row per category, and for each
\* NutritionalInfo the nutritional_info row with its five nutrient rows) are
\* all in the store or none of them is. Stated for ingredients whose amounts
\* are all finite.
C1_AtomicInsert == (Inserted /\ FiniteInfos) => (AllRows \/ NoRows)

\* C2: every nutritional_info row has exactly one row in each of the five
\* nutrient tables.
C2_CompleteNutrientSets == \A ni \in nutritional_info : Complete(ni)

\* C3: after delete_ingredient(i) returns Ok, no nutritional_info row, no
\* nutrient row of such a row, no ingredient_categories row and no daily_logs
\* row refers to i, and get_ingredients, get_ingredient_by_id(i) and
\* get_log_entries return nothing for i.
C3_DeleteIngredientCascades ==
    (last.op = "delete_ingredient" /\ last.result.returned) =>
        /\ InfosOf(last.id) = {}
        /\ \A t \in NutrientTables : \A r \in nutrient_sets[t] :
                r.nutrition_info_id \notin last.infos
        /\ \A r \in ingredient_categories : r.ingredient_id # last.id
        /\ \A r \in daily_logs : r.ingredient_id # last.id
        /\ get_ingredient_by_id(last.id) = Returned(<<>>)
        /\ \A k \in 1..Len(get_ingredients.value) : get_ingredients.value[k].id # last.id
        /\ \A d \in Dates : \A k \in 1..Len(get_log_entries(d).value) :
                get_log_entries(d).value[k].ingredient.id # last.id

\* A delete_ingredient that removed the ingredient's row, a nutritional_info
\* group, a category link and a log entry.
C3_Witness ==
    /\ last.op = "delete_ingredient"
    /\ last.result = Returned(1)
    /\ last.infos # {}
    /\ last.links > 0
    /\ last.logs > 0

\* C4: a delete_category(c) step removes the categories row c and the
\* ingredient_categories rows of category c, and nothing else: ingredients,
\* the links of other categories, nutritional_info, the nutrient tables and
\* daily_logs are as before.
C4_DeleteCategoryFrame ==
    [][last'.op = "delete_category" =>
        /\ categories' = {r \in categories : r.id # last'.id}
        /\ ingredient_categories' =
                {r \in ingredient_categories : r.category_id # last'.id}
        /\ ingredients' = ingredients
        /\ nutritional_info' = nutritional_info
        /\ nutrient_sets' = nutrient_sets
        /\ daily_logs' = daily_logs]_vars

\* A delete_category that removed a category and a link of it, with an
\* ingredient and a link to another category left in place.
C4_Witness ==
    /\ last.op = "delete_category"
    /\ last.result = Returned(1)
    /\ last.links > 0
    /\ ingredient_categories # {}
    /\ ingredients # {}

\* C5: an id that a category (an ingredient) had when it was deleted is not
\* given to a category (an ingredient) inserted afterwards; stated for the
\* insert that directly follows the delete.
C5_NoIdReuse ==
    [][/\ (last.op = "delete_category" /\ last.result = Returned(1)
                /\ last'.op = "insert_category") => last'.id # last.id
       /\ (last.op = "delete_ingredient" /\ last.result = Returned(1)
                /\ last'.op = "insert_ingredient" /\ last'.id # Null) => last'.id # last.id]_vars

ReadBack == get_ingredient_by_id(last.id)

\* C6: an ingredient inserted with one NutritionalInfo whose fields are all
\* finite, read back by the id the store gave it, has the default_amount, the
\* kilocalories and the amounts of every nutrient group that were inserted.
\* Stated for a read that finds the ingredient.
C6_RoundTrip ==
    (/\ Inserted
     /\ Len(last.ingredient.nutritional_info) = 1
     /\ FiniteInfos
     /\ ReadBack.returned
     /\ ReadBack.value # <<>>) =>
        LET put == last.ingredient.nutritional_info[1]
            got == ReadBack.value[1].nutritional_info[1]
        IN  /\ got.default_amount = put.default_amount
            /\ got.kilocalories = put.kilocalories
            /\ got.groups = put.groups

\* C7: insert_ingredient with k >= 1 NutritionalInfo records leaves k
\* nutritional_info rows for the ingredient, each with its five nutrient rows.
\* Stated for an ingredient with no categories and finite amounts whose
\* ingredients row was written.
C7_EveryInfoPersisted ==
    (/\ Inserted
     /\ last.id # Null
     /\ last.ingredient.categories = <<>>
     /\ FiniteInfos
     /\ Len(last.ingredient.nutritional_info) >= 1) =>
        /\ Cardinality(InfosOf(last.id)) = Len(last.ingredient.nutritional_info)
        /\ \A ni \in InfosOf(last.id) : Complete(ni)

\* C8: get_log_entries(d) returns the daily_logs rows of date d, all of them
\* and no others, each with the ingredient get_ingredient_by_id returns for
\* its ingredient_id.
C8_LogEntriesOfDate ==
    \A d \in Dates :
        LET got == get_log_entries(d)
        IN  /\ got.returned
            /\ {got.value[k].id : k \in 1..Len(got.value)} = Ids(LogRows(d))
            /\ Len(got.value) = Cardinality(LogRows(d))
            /\ \A k \in 1..Len(got.value) : \E l \in LogRows(d) :
                    /\ l.id = got.value[k].id
                    /\ <<got.value[k].ingredient>> = get_ingredient_by_id(l.ingredient_id).value

\* C9: get_log_entries does not unwind: an entry whose ingredient lookup is
\* empty is skipped and the call returns.
C9_LogReadReturns == ~(last.op = "get_log_entries" /\ ~last.result.returned)

\* C10: every daily_logs row refers to exactly one ingredients row.
C10_NoOrphanLogEntry ==
    \A l \in daily_logs : Cardinality({i \in ingredients : i.id = l.ingredient_id}) = 1

\* A delete_ingredient that took log entries with it and left another
\* ingredient in place.
C10_Witness ==
    /\ last.op = "delete_ingredient"
    /\ last.result = Returned(1)
    /\ last.logs > 0
    /\ ingredients # {}

\* The ids of the ingredients a reader returned.
ReturnedIds(result) == {result.value[k].id : k \in 1..Len(result.value)}

\* The ingredient has a nutritional_info row with a row in each of the five
\* nutrient tables.
HasCompleteInfo(id) ==
    \E ni \in InfosOf(id) : \A t \in NutrientTables : SetsOf(t, ni) # {}

\* C11: get_ingredients returns an ingredient if and only if the store holds a
\* nutritional_info row of it that has a row in every one of the five nutrient
\* tables; an ingredient with no nutritional_info row, or one whose
\* nutritional_info lacks a nutrient row, is not in the result.
C11_InnerJoinVisibility ==
    /\ get_ingredients.returned
    /\ ReturnedIds(get_ingredients) = {i.id : i \in {j \in ingredients : HasCompleteInfo(j.id)}}

\* One ingredient is returned while another is held back: it has a
\* nutritional_info row that lacks a nutrient row.
C11_Witness ==
    /\ ReturnedIds(get_ingredients) # {}
    /\ \E i \in ingredients : InfosOf(i.id) # {} /\ ~HasCompleteInfo(i.id)

\* C12: get_ingredient_by_id(id) returns at most one ingredient and agrees
\* with get_ingredients: one element with that id, one that get_ingredients
\* returns too, when get_ingredients has an ingredient with that id, and the
\* empty list otherwise.
C12_ByIdAgreesWithAll ==
    \A id \in IngredientIds :
        LET one == get_ingredient_by_id(id)
            all == get_ingredients
        IN  /\ one.returned
            /\ Len(one.value) <= 1
            /\ id \in ReturnedIds(all) =>
                    /\ Len(one.value) = 1
                    /\ one.value[1].id = id
                    /\ \E k \in 1..Len(all.value) : all.value[k] = one.value[1]
            /\ id \notin ReturnedIds(all) => one.value = <<>>

\* Two ingredients are stored: the lookup finds one of them and comes back
\* empty for the other.
C12_Witness ==
    /\ \E id \in Ids(ingredients) : Len(get_ingredient_by_id(id).value) = 1
    /\ \E id \in Ids(ingredients) : get_ingredient_by_id(id).value = <<>>

\* C13: when a statement of an insert_ingredient write fails, the call does
\* not return normally: it unwinds.
C13_WriteFailureIsFatal == (Inserted /\ last.failed) => panicked

\* The ids of the items a list delete got through before it stopped.
Reached(list, error_at) ==
    {list[k] : k \in 1..(IF error_at = 0 THEN Len(list) ELSE error_at - 1)}

\* C14: delete_categories(list) and delete_ingredients(list) delete item by
\* item in list order. When the delete of item k fails they return the error,
\* the items before k are deleted and item k and the items after it are as
\* before; when none fails every item is deleted and the result is the sum of
\* the per-item counts of deleted rows.
C14_ListDeletesStopAtFirstError ==
    [][/\ last'.op = "delete_categories" =>
            LET reached == Reached(last'.list, last'.error_at)
            IN  /\ categories' = {c \in categories : c.id \notin reached}
                /\ ingredients' = ingredients
                /\ last'.error_at # 0 => last'.result = Err
                /\ last'.error_at = 0 =>
                        last'.result = Ok(Cardinality(reached \cap Ids(categories)))
       /\ last'.op = "delete_ingredients" =>
            LET reached == Reached(last'.list, last'.error_at)
            IN  /\ ingredients' = {i \in ingredients : i.id \notin reached}
                /\ categories' = categories
                /\ last'.error_at # 0 => last'.result = Err
                /\ last'.error_at = 0 =>
                        last'.result = Ok(Cardinality(reached \cap Ids(ingredients)))]_vars

\* delete_categories of two categories whose second delete failed: the first
\* is gone, the second is still stored.
C14_Witness ==
    /\ last.op = "delete_categories"
    /\ Len(last.list) = 2
    /\ last.error_at = 2
    /\ last.result = Err
    /\ last.list[1] \notin Ids(categories)
    /\ last.list[2] \in Ids(categories)
    /\ last.list[1] < last.list[2]

\* C15: delete_category(c) returns the number of categories rows it deleted:
\* 1 when a category with c.id is stored, and 0 otherwise, in which case the
\* store is as before. The cascaded ingredient_categories rows are not
\* counted.
C15_DeleteCategoryCount ==
    [][last'.op = "delete_category" =>
        /\ last'.id \in Ids(categories) => last'.result = Returned(1)
        /\ last'.id \notin Ids(categories) =>
                /\ last'.result = Returned(0)
                /\ UNCHANGED tables]_vars

\* A delete_category that returned 1 and took two ingredient_categories rows
\* with it.
C15_Witness ==
    /\ last.op = "delete_category"
    /\ last.result = Returned(1)
    /\ last.links = 2

\* C16: insert_log_entry(date, entry) with an ingredient id that is in
\* ingredients adds exactly one daily_logs row (date, ingredient id, fraction)
\* and changes no other table; with an id that is not in ingredients the
\* foreign key rejects the row and daily_logs is as before.
C16_InsertLogEntry ==
    [][last'.op = "insert_log_entry" =>
        /\ UNCHANGED <<ingredients, categories, ingredient_categories,
                       nutritional_info, nutrient_sets>>
        /\ last'.id \in Ids(ingredients) =>
                \E row \in daily_logs' \ daily_logs :
                    /\ daily_logs' = daily_logs \cup {row}
                    /\ row.date = last'.date
                    /\ row.ingredient_id = last'.id
                    /\ row.fraction = last'.fraction
        /\ last'.id \notin Ids(ingredients) => daily_logs' = daily_logs]_vars

\* An insert_log_entry for an id that is not in ingredients, after one that
\* was stored.
C16_Witness ==
    /\ last.op = "insert_log_entry"
    /\ last.id \notin Ids(ingredients)
    /\ daily_logs # {}

\* C17: running setup_tables again leaves every table and every row of every
\* table as it was, whatever the store holds (create-if-absent: nothing is
\* dropped or truncated), and the connection's state with it.
C17_SetupTablesIdempotent ==
    [][last'.op = "setup_tables" => UNCHANGED <<tables, variables, in_transaction>>]_vars

\* setup_tables has run on a store with rows in every table.
C17_Witness ==
    /\ last.op = "setup_tables"
    /\ ingredients # {} /\ categories # {} /\ ingredient_categories # {}
    /\ nutritional_info # {} /\ daily_logs # {}
    /\ \A t \in NutrientTables : nutrient_sets[t] # {}

BadUnit(r) == r.ni.default_unit \notin 0..4

DecodedUnits(result) ==
    {result.value[k].nutritional_info[1].default_unit : k \in 1..Len(result.value)}

\* C18: a stored default_unit outside 0..4 is never mapped to a unit: from_uint
\* panics on it, get_ingredients unwinds when any row of its join carries one,
\* get_ingredient_by_id unwinds when the row it picks carries one, and every
\* unit a reader does return is the decoding of a stored code in 0..4.
C18_BadUnitCodeIsFatal ==
    /\ \A code \in StoredCodes \ (0..4) : from_uint(code) = Panic
    /\ (\E r \in JoinRows : BadUnit(r)) => ~get_ingredients.returned
    /\ \A id \in IngredientIds :
            /\ (\A r \in JoinRows : r.ing.id = id => BadUnit(r))
                    /\ (\E r \in JoinRows : r.ing.id = id)
                => ~get_ingredient_by_id(id).returned
            /\ get_ingredient_by_id(id).returned =>
                    \A unit \in DecodedUnits(get_ingredient_by_id(id)) :
                        \E r \in JoinRows :
                            /\ r.ing.id = id /\ ~BadUnit(r)
                            /\ unit = Unit[r.ni.default_unit + 1]
    /\ get_ingredients.returned =>
            \A unit \in DecodedUnits(get_ingredients) :
                \E r \in JoinRows : ~BadUnit(r) /\ unit = Unit[r.ni.default_unit + 1]

\* get_ingredient_by_id has unwound on an ingredient stored with code 5, next
\* to an ingredient with a valid code.
C18_Witness ==
    /\ panicked /\ last.op = "get_ingredient_by_id" /\ ~last.result.returned
    /\ \E r \in JoinRows : r.ing.id = last.id /\ r.ni.default_unit = 5
    /\ \E r \in JoinRows : ~BadUnit(r)

\* C19: the unit codes are 0 = Grams, 1 = Teaspoons, 2 = Tablespoons,
\* 3 = Pieces, 4 = Cups; encoding a unit (as u8 in insert_ingredient, ToSql)
\* and decoding the code with from_uint gives the unit back, decoding a code
\* in 0..4 and encoding the unit gives the code back, and an ingredient read
\* back from the store carries the default unit it was inserted with.
C19_UnitRoundTrip ==
    /\ as_u8("Grams") = 0 /\ as_u8("Teaspoons") = 1 /\ as_u8("Tablespoons") = 2
    /\ as_u8("Pieces") = 3 /\ as_u8("Cups") = 4
    /\ \A unit \in Units :
            /\ to_sql(unit) = as_u8(unit)
            /\ from_uint(as_u8(unit)) = unit
            /\ from_uint(to_sql(unit)) = unit
    /\ \A code \in 0..4 :
            /\ from_uint(code) \in Units
            /\ as_u8(from_uint(code)) = code
            /\ to_sql(from_uint(code)) = code
    /\ (Inserted /\ ~last.failed /\ ReadBack.returned /\ ReadBack.value # <<>>) =>
            ReadBack.value[1].nutritional_info[1].default_unit
                = last.ingredient.nutritional_info[1].default_unit

\* An ingredient measured in tablespoons has been inserted and is read back,
\* next to one measured in another unit.
C19_Witness ==
    /\ Inserted /\ ~last.failed
    /\ last.ingredient.nutritional_info[1].default_unit = "Tablespoons"
    /\ ReadBack.returned /\ ReadBack.value # <<>>
    /\ \E n \in nutritional_info : n.default_unit \notin {2}

RECURSIVE SumOf(_, _)
SumOf(amount, fields) ==
    IF fields = {} THEN 0
    ELSE LET f == CHOOSE g \in fields : TRUE
         IN  amount[f] + SumOf(amount, fields \ {f})

\* C20: estimate_calories is 4 x the sum of the nine essential and eleven
\* non-essential amino acids, plus 9 x (saturated + monounsaturated +
\* polyunsaturated), plus 4 x (starch + sugars + half of sugar_alcohols); fiber
\* adds nothing; and the example (10 g histidine, no fat, 20 g starch, 5 g
\* fiber, 5 g sugars, 4 g sugar alcohols) comes to 148 kcal.
C20_EstimateCalories ==
    last.op = "estimate_calories" =>
        LET m == last.macronutrients
            proteins == SumOf(m.proteins.essential_amino_acids, EssentialAminoAcids)
                        + SumOf(m.proteins.non_essential_amino_acids, NonEssentialAminoAcids)
            fats == SumOf(m.fats, Fats)
            c == m.carbohydrates
        IN  /\ Cardinality(EssentialAminoAcids) = 9
            /\ Cardinality(NonEssentialAminoAcids) = 11
            /\ 2 * last.result
                    = 8 * proteins + 18 * fats
                        + 4 * (2 * c.starch + 2 * c.sugars + c.sugar_alcohols)
            /\ last.result = estimate_calories([m EXCEPT !.carbohydrates.fiber = 0])
            /\ m = Example => last.result = Grams(148)

\* The example has been estimated.
C20_Witness ==
    /\ last.op = "estimate_calories"
    /\ last.macronutrients.proteins.essential_amino_acids.histidine = Grams(10)
    /\ last.macronutrients.carbohydrates.fiber = Grams(5)
    /\ last.macronutrients.carbohydrates.sugar_alcohols = Grams(4)

\* C21: the kilocalories stored for an ingredient are the value handed to
\* insert_ingredient, and no later operation changes the kilocalories of a
\* stored nutritional_info row. Stated for an ingredient with one
\* NutritionalInfo whose amounts are finite.
C21_KilocaloriesAsEntered ==
    [][/\ (/\ last'.op = "insert_ingredient"
            /\ Len(last'.ingredient.nutritional_info) = 1
            /\ Finite(last'.ingredient.nutritional_info[1])) =>
                \A n \in nutritional_info' \ nutritional_info :
                    n.kilocalories = last'.ingredient.nutritional_info[1].kilocalories
       /\ \A n \in nutritional_info : \A m \in nutritional_info' :
                m.id = n.id => m.kilocalories = n.kilocalories]_vars

\* C22: when insert_ingredient has returned, the connection is in no
\* transaction, whether or not a statement of its batches failed.
C22_NoOpenTransaction == Inserted => ~in_transaction

NewSets(t) == {r.nutrition_info_id : r \in nutrient_sets'[t] \ nutrient_sets[t]}

\* C23: the ingredient_categories and nutritional_info rows a call of
\* insert_ingredient writes carry the id of the ingredients row that call
\* inserted, and the nutrient rows it writes carry the id of a
\* nutritional_info row of the same call.
C23_RowsReferenceOwnIngredient ==
    [][last'.op = "insert_ingredient" =>
        /\ \A r \in ingredient_categories' \ ingredient_categories :
                r.ingredient_id = last'.id /\ last'.id \notin Ids(ingredients)
        /\ \A n \in nutritional_info' \ nutritional_info :
                n.ingredient_id = last'.id /\ last'.id \notin Ids(ingredients)
        /\ \A t \in NutrientTables :
                NewSets(t) \subseteq Ids(nutritional_info' \ nutritional_info)]_vars

\* C24: get_ingredients returns no ingredient id twice.
C24_NoDuplicateIngredient ==
    get_ingredients.returned =>
        Len(get_ingredients.value) = Cardinality(ReturnedIds(get_ingredients))

\* get_ingredients returns two ingredients, each with its categories.
C24_Witness ==
    /\ get_ingredients.returned /\ Len(get_ingredients.value) = 2
    /\ \A k \in 1..2 : get_ingredients.value[k].categories # <<>>

DetailsEvents == {"details", "delete_ingredient", "delete_category"}

\* C25: details_view never runs with a selection that is no index of its
\* list: a frame of the Details tab does not unwind on
\* ingredients_list[selected_ingredient] or categories_list[selected_category].
C25_SelectionInBounds ==
    (last.op = "ui" /\ last.event \in DetailsEvents) => ~panicked

\* C26: whenever Create is handled in the new-ingredient dialog, every index in
\* new_ingredient_selected_categories is a valid index of categories_list, so
\* the frame that handles Create does not unwind on categories_list[*n].
C26_SelectedCategoriesValid ==
    (last.op = "ui" /\ last.event = "create_ingredient") => ~panicked

\* C27: where update_ingredients is false, ingredients_list is what
\* get_ingredients returns on the current store, and where update_categories
\* is false, categories_list is what get_categories returns.
C27_ListsFollowStore ==
    /\ ~context.update_ingredients =>
            /\ get_ingredients.returned
            /\ context.ingredients_list = get_ingredients.value
    /\ ~context.update_categories =>
            /\ get_categories.returned
            /\ context.categories_list = get_categories.value

\* Both lists are current after a category that an ingredient was in has been
\* deleted and an ingredient has been created from the dialog.
C27_Witness ==
    /\ ~panicked
    /\ ~context.update_ingredients
    /\ ~context.update_categories
    /\ \E r \in nutritional_info : r.kilocalories = FormatP1(0)
    /\ \E r \in categories : \E c \in 1..(r.id - 1) : ~\E q \in categories : q.id = c
    /\ Len(context.ingredients_list) > 0

\* C28: a frame that reloads ingredients_list leaves update_log_entries set,
\* and where update_ingredients and update_log_entries are both false,
\* log_entry_list is what get_log_entries returns for the current date and
\* holds no entry for an ingredient that is not in the store.
C28_LogEntriesFollowStore ==
    /\ [](~context.update_ingredients /\ ~context.update_log_entries =>
            /\ get_log_entries(context.date).returned
            /\ context.log_entry_list = get_log_entries(context.date).value
            /\ \A k \in 1..Len(context.log_entry_list) :
                    context.log_entry_list[k].ingredient.id \in Ids(ingredients))
    /\ [][context.update_ingredients /\ ~context'.update_ingredients =>
            context'.update_log_entries]_vars

\* Both lists are current after ingredient 1 was deleted and a log entry for
\* another ingredient was created from the dialog.
C28_Witness ==
    /\ ~panicked
    /\ ~context.update_ingredients
    /\ ~context.update_log_entries
    /\ Len(context.log_entry_list) > 0
    /\ \E l \in daily_logs : l.ingredient_id > 1
    /\ ~\E i \in ingredients : i.id = 1

\* The fields of the new-ingredient form.
FormFields(ctx) ==
    <<ctx.new_ingredient_name, ctx.new_ingredient_amount, ctx.new_ingredient_unit,
      ctx.new_ingredient_calories, ctx.new_ingredient_selected_categories>>

\* C29: Create in the new-ingredient dialog with an empty name calls no
\* repository operation, leaves the store, the dialog and the entered fields
\* as they are and sets new_ingredient_name_was_empty; with a name it calls
\* insert_ingredient once, sets update_ingredients, puts the form fields back
\* to their defaults and closes the dialog. Create in the new-category dialog
\* inserts exactly when a name and an icon are given.
C29_CreateHandled ==
    [][/\ (last'.op = "ui" /\ last'.event = "create_ingredient") =>
            IF context.new_ingredient_name = ""
            THEN /\ last'.calls = 0
                 /\ Database' = Database
                 /\ context'.show_new_ingredient_dialog
                 /\ context'.new_ingredient_name_was_empty
                 /\ FormFields(context') = FormFields(context)
            ELSE /\ last'.calls = 1
                 /\ ~panicked'
                 /\ context'.update_ingredients
                 /\ ~context'.show_new_ingredient_dialog
                 /\ FormFields(context') = FormFields(MyContext)
       /\ (last'.op = "ui" /\ last'.event = "create_category") =>
            IF valid_category(context)
            THEN last'.calls = 1 /\ Cardinality(categories') = Cardinality(categories) + 1
            ELSE last'.calls = 0 /\ Database' = Database]_vars

============================================================================
